---- MODULE Spec2Model ----
(***************************************************************************)
(* The livestock registry store of "New VAT" as a state machine.           *)
(*                                                                         *)
(* Two incarnations of the store exist in the repository:                  *)
(*   - the request-based store (services/types.ts, lines 73-359), with     *)
(*     explicit transfer requests that a buyer accepts or rejects;         *)
(*   - the timer-based store (services/store.ts), where initiateTransfer   *)
(*     schedules confirmTransfer with setTimeout.                          *)
(* Every handler is one atomic action: React runs an event handler to      *)
(* completion and applies its state updates before the next event.         *)
(*                                                                         *)
(* Identifiers are pairs <<prefix, n>>: 'u1' is <<"u", 1>>, 'a1' is        *)
(* <<"a", 1>>, `u${Date.now()}` is <<"u", t>>, `tr-${Date.now()}` is       *)
(* <<"tr-", t>>, Date.now().toString() is <<"", t>>, and the empty         *)
(* string '' is <<"", 0>>.  The clock moves on between two events, and a   *)
(* collection never loses an element, so a reading t of Date.now() is      *)
(* named by the rank of the element it stamps in its collection            *)
(* (Stamp): the readings stay distinct and keep their order.  The fields   *)
(* that no handler reads or writes (name, phoneNumber, password,           *)
(* registrationNumber, description, registeredDate) are left out.          *)
(***************************************************************************)
EXTENDS Integers, Sequences, FiniteSets, TLC

VARIABLES store, currentUser, users, animals, alerts, transferRequests,
          butcheryRecords, timers, localStorage, mounted

vars == <<store, currentUser, users, animals, alerts, transferRequests,
          butcheryRecords, timers, localStorage, mounted>>

\* store: which incarnation runs, "request" or "timer" (fixed at construction)
\* timers: the setTimeout callbacks of the timer-based store not yet run
timerStore == <<store, timers>>

\* localStorage: the item stored under the key 'animals', a sequence of no
\* or one text.  The items of the other five keys are written by their own
\* effects in the same way; they hold no image and no handler reads them.
\* mounted: the provider's effects have run after its construction
persistence == <<localStorage, mounted>>

---------------------------------------------------------------------------
(* Bounds of the model *)

\* the events after construction that create an element of a collection
MaxCreated == 3
MaxUsers == 2
MaxAnimals == 2

---------------------------------------------------------------------------
(* Types *)

FARMER == "FARMER"
BUTCHERY == "BUTCHERY"
AUTHORITY == "AUTHORITY"
MARKET_AGENT == "MARKET_AGENT"
UserRole == {FARMER, BUTCHERY, AUTHORITY, MARKET_AGENT}

ACTIVE == "ACTIVE"
SOLD == "SOLD"
SLAUGHTERED == "SLAUGHTERED"
DEAD == "DEAD"
STOLEN == "STOLEN"
PENDING_TRANSFER == "PENDING_TRANSFER"
AnimalStatus == {ACTIVE, SOLD, SLAUGHTERED, DEAD, STOLEN, PENDING_TRANSFER}

\* currentUser: User | null -- a sequence of no or one User
null == <<>>

\* the empty string passed as an id (no animal selected)
EmptyId == <<"", 0>>

MOCK_USERS ==
    << [id |-> <<"u", 1>>, role |-> FARMER, county |-> "Nairobi",
        village |-> "Miotoni"] >>

MOCK_ANIMALS ==
    << [id |-> <<"a", 1>>, serialNumber |-> "COW-2023-001",
        species |-> "Cattle", ownerId |-> <<"u", 1>>, status |-> ACTIVE,
        transferHistory |-> <<>>, biometricHash |-> "BIO-MOCK-1",
        photos |-> [front |-> "https://picsum.photos/300/200",
                    left |-> "https://picsum.photos/300/201",
                    right |-> "https://picsum.photos/300/202"]] >>

\* services/store.ts
store_MOCK_USERS ==
    << [id |-> <<"u", 1>>, role |-> FARMER, county |-> "Nairobi",
        village |-> "Miotoni"],
       [id |-> <<"u", 2>>, role |-> BUTCHERY, county |-> "Kiambu",
        village |-> "Market Center"],
       [id |-> <<"u", 5>>, role |-> BUTCHERY, county |-> "Kiambu",
        village |-> "Farm Side"],
       [id |-> <<"u", 3>>, role |-> AUTHORITY, county |-> "Nairobi",
        village |-> "Police HQ"] >>

store_MOCK_ANIMALS ==
    << [id |-> <<"a", 1>>, serialNumber |-> "COW-2023-001",
        species |-> "Cattle", ownerId |-> <<"u", 1>>, status |-> ACTIVE,
        transferHistory |-> <<>>, biometricHash |-> "BIO-MOCK-1",
        photoUrl |-> "https://picsum.photos/300/200"],
       [id |-> <<"a", 2>>, serialNumber |-> "GOAT-2023-045",
        species |-> "Goat", ownerId |-> <<"u", 1>>, status |-> ACTIVE,
        transferHistory |-> <<>>, biometricHash |-> "BIO-MOCK-2",
        photoUrl |-> "https://picsum.photos/300/201"] >>

---------------------------------------------------------------------------
(* Array helpers *)

\* the indices of the elements with this id
Idx(s, id) == {i \in 1..Len(s) : s[i].id = id}

\* arr.find(x => x.id === id): a sequence of no or one element, the first
find(s, id) ==
    IF Idx(s, id) = {} THEN <<>>
    ELSE << s[CHOOSE i \in Idx(s, id) : \A j \in Idx(s, id) : i <= j] >>

\* mutant of SetStatus: the status is written as the label shown to the user
SetStatusLabel(s, animalId, st) ==
    [i \in 1..Len(s) |->
        IF s[i].id = animalId
          THEN [s[i] EXCEPT !.status = IF st = STOLEN THEN "Stolen" ELSE st]
          ELSE s[i]]

\* prev.map(a => a.id === animalId ? { ...a, status } : a)
SetStatus(s, animalId, st) ==
    [i \in 1..Len(s) |->
        IF s[i].id = animalId THEN [s[i] EXCEPT !.status = st] ELSE s[i]]

Ids(s) == {s[i].id : i \in 1..Len(s)}

\* the reading of Date.now() that stamps the next element of s
Stamp(s) == Len(s) + 1

RECURSIVE HistoryCount(_, _)
HistoryCount(s, n) ==
    IF n = 0 THEN 0 ELSE Len(s[n].transferHistory) + HistoryCount(s, n - 1)

\* the events after construction that created an element: a user, an
\* animal, a STOLEN alert, a request, a butchery record (with its RED_ZONE
\* alert), a transfer record or a timer
Created ==
    (Len(users) - (IF store = "request" THEN Len(MOCK_USERS)
                                        ELSE Len(store_MOCK_USERS)))
      + (Len(animals) - (IF store = "request" THEN Len(MOCK_ANIMALS)
                                              ELSE Len(store_MOCK_ANIMALS)))
      + Cardinality({i \in 1..Len(alerts) : alerts[i].type = "STOLEN"})
      + Len(transferRequests) + Len(butcheryRecords)
      + HistoryCount(animals, Len(animals))
      + Len(timers)

\* room for one more such event
Room == Created < MaxCreated

---------------------------------------------------------------------------
(* Persistence: services/types.ts, loadState and safeSetItem *)

\* the value of a property that is not set
undefined == "undefined"

\* localStorage.getItem(key) === null
NoItem == <<>>

\* a text that JSON.parse throws on
Corrupt == [kind |-> "corrupt", value |-> <<>>]

\* the text 'null': it parses, to a value that is no array
NullText == [kind |-> "null", value |-> null]

DefaultPhoto == "https://picsum.photos/200"

\* the three compressed images of RegisterAnimalView
Captured ==
    [front |-> "data:front", left |-> "data:left", right |-> "data:right"]

\* an image that takes the animals' text over the storage quota
TooBig == "data:over-quota"

\* JSON.stringify of an array of objects: the text of the array, in which
\* a property whose value is undefined is left out
JSON_stringify(value) ==
    [kind |-> "array",
     value |-> [i \in 1..Len(value) |->
                  [k \in {k \in DOMAIN value[i] :
                             ~(k = "photoUrl" /\ value[i][k] = undefined)}
                      |-> value[i][k]]]]

\* localStorage.setItem throws QuotaExceededError
QuotaExceeded(text) ==
    \E i \in 1..Len(text.value) :
        /\ "photos" \in DOMAIN text.value[i]
        /\ TooBig \in {text.value[i].photos.front,
                       text.value[i].photos.left,
                       text.value[i].photos.right}

\* the storage after safeSetItem('animals', value): the error of setItem
\* is caught and logged, and the item stays as it was
safeSetItem(storage, value) ==
    LET text == JSON_stringify(value) IN
    IF QuotaExceeded(text) THEN storage ELSE << text >>

\* mutant of Migrated: the upgraded record shows the placeholder image
MigratedPlaceholder(a) ==
    IF "photos" \in DOMAIN a THEN a
    ELSE [k \in DOMAIN a \cup {"photos", "photoUrl"} |->
            IF k = "photos"
              THEN [left |-> DefaultPhoto, right |-> DefaultPhoto,
                    front |-> DefaultPhoto]
            ELSE IF k = "photoUrl" THEN undefined
            ELSE a[k]]

\* the migration of one parsed animal: if (!a.photos) { ...a, photos: {
\* left: a.photoUrl || default, right, front }, photoUrl: undefined }
Migrated(a) ==
    IF "photos" \in DOMAIN a THEN a
    ELSE [k \in DOMAIN a \cup {"photos", "photoUrl"} |->
            IF k = "photos"
              THEN [left |-> IF "photoUrl" \in DOMAIN a
                                 /\ a.photoUrl \notin {"", undefined}
                               THEN a.photoUrl ELSE DefaultPhoto,
                    right |-> DefaultPhoto,
                    front |-> DefaultPhoto]
            ELSE IF k = "photoUrl" THEN undefined
            ELSE a[k]]

\* loadState(key, fallback) on a storage whose item of that key is `item`
loadState(item, key, fallback) ==
    IF item = NoItem THEN fallback
    ELSE IF item[1].kind = "corrupt" THEN fallback
    ELSE IF key = "animals" /\ item[1].kind = "array"
      THEN [i \in 1..Len(item[1].value) |-> Migrated(item[1].value[i])]
    ELSE item[1].value

\* animals is null, loaded from the text 'null' (the effects write that
\* text again): prev.map, [...prev] and animals.filter throw a TypeError,
\* and the ErrorBoundary offers to reset the data
broken == localStorage # NoItem /\ localStorage[1].kind = "null"

\* useEffect(() => safeSetItem('animals', animals), [animals]), after the
\* render that follows a handler: it runs if animals has changed
useEffect ==
    /\ mounted
    /\ UNCHANGED mounted
    /\ localStorage' = IF animals' # animals
                         THEN safeSetItem(localStorage, animals')
                         ELSE localStorage

\* the effects of the first render
mount ==
    /\ ~mounted
    /\ ~broken
    /\ mounted' = TRUE
    /\ localStorage' = safeSetItem(localStorage, animals)
    /\ UNCHANGED <<store, currentUser, users, animals, alerts,
                   transferRequests, butcheryRecords, timers>>

---------------------------------------------------------------------------
(* The request-based store: services/types.ts *)

\* the provider constructed on a storage that holds no item
Init ==
    /\ store = "request"
    /\ timers = <<>>
    /\ localStorage = NoItem
    /\ mounted = FALSE
    /\ currentUser = null
    /\ users = MOCK_USERS
    /\ animals = loadState(localStorage, "animals", MOCK_ANIMALS)
    /\ alerts = <<>>
    /\ transferRequests = <<>>
    /\ butcheryRecords = <<>>

registerUser(role, county, village) ==
    /\ Room
    /\ Len(users) < MaxUsers
    /\ users' = Append(users, [id |-> <<"u", Stamp(users)>>, role |-> role,
                               county |-> county, village |-> village])
    /\ UNCHANGED <<currentUser, animals, alerts, transferRequests,
                   butcheryRecords>>
    /\ UNCHANGED timerStore
    /\ useEffect

\* login with the phone number and password of users[i]
login(i) ==
    /\ i \in 1..Len(users)
    /\ currentUser' = << users[i] >>
    /\ UNCHANGED <<users, animals, alerts, transferRequests,
                   butcheryRecords>>
    /\ UNCHANGED timerStore
    /\ useEffect

logout ==
    /\ currentUser' = null
    /\ UNCHANGED <<users, animals, alerts, transferRequests,
                   butcheryRecords>>
    /\ UNCHANGED timerStore
    /\ useEffect

registerAnimal(newAnimal) ==
    /\ Room
    /\ Len(animals) < MaxAnimals
    /\ animals' = Append(animals, newAnimal)
    /\ UNCHANGED <<currentUser, users, alerts, transferRequests,
                   butcheryRecords>>
    /\ UNCHANGED timerStore
    /\ useEffect

\* mutant of StolenAlert: targeted at every county, as a RED_ZONE alert is
StolenAlertAll(animal, user, t) ==
    [id |-> <<"", t>>, type |-> "STOLEN", animalId |-> animal.id,
     details |-> <<"STOLEN", animal.species, animal.serialNumber,
                   user.village>>,
     targetCounty |-> "ALL", timestamp |-> t, resolved |-> FALSE]

StolenAlert(animal, user, t) ==
    [id |-> <<"", t>>, type |-> "STOLEN", animalId |-> animal.id,
     details |-> <<"STOLEN", animal.species, animal.serialNumber,
                   user.village>>,
     targetCounty |-> user.county, timestamp |-> t, resolved |-> FALSE]

reportStolen(animalId) ==
    LET animal == find(animals, animalId) IN
    /\ animals' = SetStatus(animals, animalId, STOLEN)
    /\ IF animal # <<>> /\ currentUser # null
         THEN /\ Room
              /\ alerts' = <<StolenAlert(animal[1], currentUser[1],
                                         Stamp(alerts))>> \o alerts
         ELSE UNCHANGED alerts
    /\ UNCHANGED <<currentUser, users, transferRequests, butcheryRecords>>
    /\ UNCHANGED timerStore
    /\ useEffect

\* mutant of ResolveStolen: every alert of the animal, whatever its type
ResolveAnimalAlerts(s, animalId) ==
    [i \in 1..Len(s) |->
        IF s[i].animalId = animalId
          THEN [s[i] EXCEPT !.resolved = TRUE] ELSE s[i]]

ResolveStolen(s, animalId) ==
    [i \in 1..Len(s) |->
        IF s[i].animalId = animalId /\ s[i].type = "STOLEN"
          THEN [s[i] EXCEPT !.resolved = TRUE] ELSE s[i]]

recoverAnimal(animalId) ==
    /\ animals' = SetStatus(animals, animalId, ACTIVE)
    /\ alerts' = ResolveStolen(alerts, animalId)
    /\ UNCHANGED <<currentUser, users, transferRequests, butcheryRecords>>
    /\ UNCHANGED timerStore
    /\ useEffect

\* mutant of markDead: the death of the animal closes its STOLEN alerts
markDeadResolving(animalId) ==
    /\ animals' = SetStatus(animals, animalId, DEAD)
    /\ alerts' = ResolveStolen(alerts, animalId)
    /\ UNCHANGED <<currentUser, users, transferRequests, butcheryRecords>>
    /\ UNCHANGED timerStore
    /\ useEffect

markDead(animalId) ==
    /\ animals' = SetStatus(animals, animalId, DEAD)
    /\ UNCHANGED <<currentUser, users, alerts, transferRequests,
                   butcheryRecords>>
    /\ UNCHANGED timerStore
    /\ useEffect

homeSlaughter(animalId) ==
    /\ animals' = SetStatus(animals, animalId, SLAUGHTERED)
    /\ UNCHANGED <<currentUser, users, alerts, transferRequests,
                   butcheryRecords>>
    /\ UNCHANGED timerStore
    /\ useEffect

\* Transfer functions

\* mutant of initiateTransfer: the status is set before the user is looked at
initiateTransferUnchecked(animalId, toUserId) ==
    /\ animals' = SetStatus(animals, animalId, PENDING_TRANSFER)
    /\ IF currentUser = null THEN UNCHANGED transferRequests
       ELSE /\ Room
            /\ transferRequests' =
                  Append(transferRequests,
                         [id |-> <<"tr-", Stamp(transferRequests)>>,
                          animalId |-> animalId,
                          fromUserId |-> currentUser[1].id,
                          toUserId |-> toUserId,
                          status |-> "PENDING",
                          timestamp |-> Stamp(transferRequests)])
    /\ UNCHANGED <<currentUser, users, alerts, butcheryRecords>>
    /\ UNCHANGED timerStore
    /\ useEffect

initiateTransfer(animalId, toUserId) ==
    IF currentUser = null THEN UNCHANGED vars
    ELSE
    /\ Room
    /\ transferRequests' =
          Append(transferRequests,
                 [id |-> <<"tr-", Stamp(transferRequests)>>,
                  animalId |-> animalId,
                  fromUserId |-> currentUser[1].id, toUserId |-> toUserId,
                  status |-> "PENDING",
                  timestamp |-> Stamp(transferRequests)])
    /\ animals' = SetStatus(animals, animalId, PENDING_TRANSFER)
    /\ UNCHANGED <<currentUser, users, alerts, butcheryRecords>>
    /\ UNCHANGED timerStore
    /\ useEffect

\* prev.map(r => r.id === requestId ? { ...r, status } : r)
SetRequestStatus(s, requestId, st) ==
    [i \in 1..Len(s) |->
        IF s[i].id = requestId THEN [s[i] EXCEPT !.status = st] ELSE s[i]]

\* mutant of SaleRecord: seller and buyer swapped
SaleRecordSwapped(t, from, to) ==
    [date |-> t, fromUserId |-> to, toUserId |-> from, type |-> "SALE"]

SaleRecord(t, from, to) ==
    [date |-> t, fromUserId |-> from, toUserId |-> to, type |-> "SALE"]

acceptTransfer(requestId) ==
    LET request == find(transferRequests, requestId) IN
    IF request = <<>> THEN UNCHANGED vars
    ELSE
    /\ Room
    /\ animals' =
          [i \in 1..Len(animals) |->
              IF animals[i].id # request[1].animalId THEN animals[i]
              ELSE [animals[i] EXCEPT
                      !.ownerId = request[1].toUserId,
                      !.status = SOLD,
                      !.transferHistory =
                          Append(@, SaleRecord(Stamp(@),
                                               request[1].fromUserId,
                                               request[1].toUserId))]]
    /\ transferRequests' =
          SetRequestStatus(transferRequests, requestId, "ACCEPTED")
    /\ UNCHANGED <<currentUser, users, alerts, butcheryRecords>>
    /\ UNCHANGED timerStore
    /\ useEffect

\* mutant of rejectTransfer: the animal is left in PENDING_TRANSFER
rejectTransferNoRevert(requestId) ==
    LET request == find(transferRequests, requestId) IN
    IF request = <<>> THEN UNCHANGED vars
    ELSE
    /\ transferRequests' =
          SetRequestStatus(transferRequests, requestId, "REJECTED")
    /\ UNCHANGED <<currentUser, users, animals, alerts, butcheryRecords>>
    /\ UNCHANGED timerStore
    /\ useEffect

\* mutant of rejectTransfer: the animal goes back to the request's sender
rejectTransferToSeller(requestId) ==
    LET request == find(transferRequests, requestId) IN
    IF request = <<>> THEN UNCHANGED vars
    ELSE
    /\ animals' =
          [i \in 1..Len(animals) |->
              IF animals[i].id # request[1].animalId THEN animals[i]
              ELSE [animals[i] EXCEPT !.ownerId = request[1].fromUserId,
                                      !.status = ACTIVE]]
    /\ transferRequests' =
          SetRequestStatus(transferRequests, requestId, "REJECTED")
    /\ UNCHANGED <<currentUser, users, alerts, butcheryRecords>>
    /\ UNCHANGED timerStore
    /\ useEffect

rejectTransfer(requestId) ==
    LET request == find(transferRequests, requestId) IN
    IF request = <<>> THEN UNCHANGED vars
    ELSE
    /\ animals' = SetStatus(animals, request[1].animalId, ACTIVE)
    /\ transferRequests' =
          SetRequestStatus(transferRequests, requestId, "REJECTED")
    /\ UNCHANGED <<currentUser, users, alerts, butcheryRecords>>
    /\ UNCHANGED timerStore
    /\ useEffect

\* Butchery specific

\* mutant of ButcheryTransferRecord: the weight is not recorded
ButcheryTransferRecordNoWeight(t, from, to, weight) ==
    [date |-> t, fromUserId |-> from, toUserId |-> to,
     type |-> "BUTCHERY_TRANSFER", weight |-> 0]

ButcheryTransferRecord(t, from, to, weight) ==
    [date |-> t, fromUserId |-> from, toUserId |-> to,
     type |-> "BUTCHERY_TRANSFER", weight |-> weight]

\* mutant of transferToButchery: the record is appended, the owner stays
transferToButcheryKeepsOwner(animalId, fromButcheryId, toButcheryId, weight) ==
    /\ Room
    /\ animals' =
          [i \in 1..Len(animals) |->
              IF animals[i].id # animalId THEN animals[i]
              ELSE [animals[i] EXCEPT
                      !.transferHistory =
                          Append(@, ButcheryTransferRecord(
                                       Stamp(@), fromButcheryId,
                                       toButcheryId, weight))]]
    /\ UNCHANGED <<currentUser, users, alerts, transferRequests,
                   butcheryRecords>>
    /\ UNCHANGED timerStore
    /\ useEffect

transferToButchery(animalId, fromButcheryId, toButcheryId, weight) ==
    /\ Room
    /\ animals' =
          [i \in 1..Len(animals) |->
              IF animals[i].id # animalId THEN animals[i]
              ELSE [animals[i] EXCEPT
                      !.ownerId = toButcheryId,
                      !.transferHistory =
                          Append(@, ButcheryTransferRecord(
                                       Stamp(@), fromButcheryId,
                                       toButcheryId, weight))]]
    /\ UNCHANGED <<currentUser, users, alerts, transferRequests,
                   butcheryRecords>>
    /\ UNCHANGED timerStore
    /\ useEffect

RedZoneAlert(record, t) ==
    [id |-> <<"", t>>, type |-> "RED_ZONE", animalId |-> record.animalId,
     details |-> <<"FRAUD", record.butcheryId, record.meatSold,
                   record.deadWeight>>,
     targetCounty |-> "ALL", timestamp |-> t, resolved |-> FALSE]

\* mutant of Fraud: selling all of the dead weight is flagged too
FraudAtLeast(record) == record.meatSold >= record.deadWeight

\* the fraud heuristic
Fraud(record) == record.meatSold > record.deadWeight

\* mutant of logSlaughter: one RED_ZONE alert per animal
logSlaughterDedup(record) ==
    /\ Room
    /\ butcheryRecords' = Append(butcheryRecords, record)
    /\ animals' = SetStatus(animals, record.animalId, SLAUGHTERED)
    /\ IF /\ Fraud(record)
          /\ ~ \E i \in 1..Len(alerts) :
                  /\ alerts[i].type = "RED_ZONE"
                  /\ alerts[i].animalId = record.animalId
         THEN alerts' = <<RedZoneAlert(record, Stamp(alerts))>> \o alerts
         ELSE UNCHANGED alerts
    /\ UNCHANGED <<currentUser, users, transferRequests>>
    /\ UNCHANGED timerStore
    /\ useEffect

\* mutant of logSlaughter: the RED_ZONE alert is put at the end
logSlaughterAtEnd(record) ==
    /\ Room
    /\ butcheryRecords' = Append(butcheryRecords, record)
    /\ animals' = SetStatus(animals, record.animalId, SLAUGHTERED)
    /\ IF Fraud(record)
         THEN alerts' = Append(alerts, RedZoneAlert(record, Stamp(alerts)))
         ELSE UNCHANGED alerts
    /\ UNCHANGED <<currentUser, users, transferRequests>>
    /\ UNCHANGED timerStore
    /\ useEffect

logSlaughter(record) ==
    /\ Room
    /\ butcheryRecords' = Append(butcheryRecords, record)
    /\ animals' = SetStatus(animals, record.animalId, SLAUGHTERED)
    /\ IF Fraud(record)
         THEN alerts' = <<RedZoneAlert(record, Stamp(alerts))>> \o alerts
         ELSE UNCHANGED alerts
    /\ UNCHANGED <<currentUser, users, transferRequests>>
    /\ UNCHANGED timerStore
    /\ useEffect

\* animals.find(a => a.biometricHash === hash || a.id === 'a1'): a
\* sequence of no or one animal, the first that the test accepts
findAnimalByHash(hash) ==
    LET found == {i \in 1..Len(animals) :
                     animals[i].biometricHash = hash
                        \/ animals[i].id = <<"a", 1>>} IN
    IF found = {} THEN <<>>
    ELSE << animals[CHOOSE i \in found : \A j \in found : i <= j] >>

---------------------------------------------------------------------------
(* The callers' inputs *)

Counties == {"Nairobi", "Kiambu"}

Village(county) == IF county = "Nairobi" THEN "Miotoni" ELSE "Market Center"

Hashes == {"BIO-MOCK-1", "BIO-2"}

\* the weights entered in the forms: smaller, equal and greater all occur
Weights == {1, 2}

\* an id that is the id of no transfer request
NoSuchRequest == <<"tr-", 0>>

\* the user ids a caller passes: 'u1', and the id of the user that
\* registerUser creates (the id of no registered user until then)
UserIdPool == {<<"u", n>> : n \in 1..MaxUsers}

AnimalIdPool == Ids(animals) \cup {EmptyId}

RequestIdPool == Ids(transferRequests) \cup {NoSuchRequest}

\* RegisterAnimalView.finalize: the Animal handed to registerAnimal
NewAnimal(ownerId, hash, t) ==
    [id |-> <<"", t>>, serialNumber |-> "SN", species |-> "Goat",
     ownerId |-> ownerId, status |-> ACTIVE, transferHistory |-> <<>>,
     biometricHash |-> hash, photos |-> Captured]

\* ButcheryDashboard.handleSlaughter: the ButcheryRecord handed to logSlaughter
NewRecord(animalId, butcheryId, live, dead, sold, t) ==
    [id |-> <<"", t>>, animalId |-> animalId, butcheryId |-> butcheryId,
     liveWeight |-> live, deadWeight |-> dead, meatSold |-> sold,
     date |-> t]

\* ButcheryDashboard.handleSlaughter: logSlaughter with the form's values,
\* butcheryId: currentUser!.id
handleSlaughter(animalId, live, dead, sold) ==
    /\ currentUser # null
    /\ logSlaughter(NewRecord(animalId, currentUser[1].id, live, dead, sold,
                              Stamp(butcheryRecords)))

Next ==
    \/ mount
    \/ \E role \in {BUTCHERY}, county \in {"Kiambu"} :
          registerUser(role, county, Village(county))
    \/ \E i \in 1..Len(users) : login(i)
    \/ logout
    \/ \E o \in UserIdPool, h \in Hashes :
          registerAnimal(NewAnimal(o, h, Stamp(animals)))
    \/ \E a \in AnimalIdPool : reportStolen(a)
    \/ \E a \in Ids(animals) : recoverAnimal(a)
    \/ \E a \in Ids(animals) : markDead(a)
    \/ \E a \in Ids(animals) : homeSlaughter(a)
    \/ \E a \in AnimalIdPool, u \in UserIdPool : initiateTransfer(a, u)
    \/ \E r \in RequestIdPool : acceptTransfer(r)
    \/ \E r \in RequestIdPool : rejectTransfer(r)
    \/ \E a \in Ids(animals), f \in UserIdPool, w \in Weights :
          \E t \in UserIdPool \ {f} : transferToButchery(a, f, t, w)
    \/ \E a \in AnimalIdPool, l \in {2}, d \in Weights, s \in Weights :
          handleSlaughter(a, l, d, s)

Spec == Init /\ [][Next]_vars

---------------------------------------------------------------------------
(* The timer-based store: services/store.ts.  Its registerUser and         *)
(* registerAnimal only add a user or an animal, as the request-based       *)
(* store's do; the model keeps the users and animals it is constructed     *)
(* with.                                                                   *)

\* room for one more creating event: the timer-based store starts with
\* more users and animals, and is given one event less
store_Room == Created + 1 < MaxCreated

\* the timer-based store keeps nothing in localStorage and has no effect
store_Init ==
    /\ store = "timer"
    /\ timers = <<>>
    /\ localStorage = NoItem
    /\ mounted = TRUE
    /\ currentUser = null
    /\ users = store_MOCK_USERS
    /\ animals = store_MOCK_ANIMALS
    /\ alerts = <<>>
    /\ transferRequests = <<>>
    /\ butcheryRecords = <<>>

\* login with the phone number and password of users[i], after the delay
store_login(i) ==
    /\ i \in 1..Len(users)
    /\ currentUser' = << users[i] >>
    /\ UNCHANGED <<persistence, store, users, animals, alerts, transferRequests,
                   butcheryRecords, timers>>

store_logout ==
    /\ currentUser' = null
    /\ UNCHANGED <<persistence, store, users, animals, alerts, transferRequests,
                   butcheryRecords, timers>>

store_StolenAlert(animal, user, t) ==
    [id |-> <<"", t>>, type |-> "STOLEN", animalId |-> animal.id,
     details |-> <<"STOLEN", animal.species, animal.serialNumber,
                   user.village, user.county>>,
     timestamp |-> t, resolved |-> FALSE]

store_reportStolen(animalId) ==
    LET animal == find(animals, animalId) IN
    /\ animals' = SetStatus(animals, animalId, STOLEN)
    /\ IF animal # <<>> /\ currentUser # null
         THEN /\ store_Room
              /\ alerts' = <<store_StolenAlert(animal[1], currentUser[1],
                                               Stamp(alerts))>> \o alerts
         ELSE UNCHANGED alerts
    /\ UNCHANGED <<persistence, store, currentUser, users, transferRequests,
                   butcheryRecords, timers>>

store_markDead(animalId) ==
    /\ animals' = SetStatus(animals, animalId, DEAD)
    /\ UNCHANGED <<persistence, store, currentUser, users, alerts, transferRequests,
                   butcheryRecords, timers>>

store_homeSlaughter(animalId) ==
    /\ animals' = SetStatus(animals, animalId, SLAUGHTERED)
    /\ UNCHANGED <<persistence, store, currentUser, users, alerts, transferRequests,
                   butcheryRecords, timers>>

\* setTimeout(() => confirmTransfer(animalId, toUserId), 2000): the
\* callbacks have the same delay and run in the order they were scheduled
store_initiateTransfer(animalId, toUserId) ==
    /\ store_Room
    /\ animals' = SetStatus(animals, animalId, PENDING_TRANSFER)
    /\ timers' = Append(timers, [animalId |-> animalId,
                                 toUserId |-> toUserId])
    /\ UNCHANGED <<persistence, store, currentUser, users, alerts, transferRequests,
                   butcheryRecords>>

\* mutant of Confirmed: a transfer is confirmed only while it is pending
ConfirmedIfPending(s, animalId, newOwnerId) ==
    [i \in 1..Len(s) |->
        IF s[i].id # animalId \/ s[i].status # PENDING_TRANSFER THEN s[i]
        ELSE [s[i] EXCEPT
                !.ownerId = newOwnerId,
                !.status = SOLD,
                !.transferHistory =
                    Append(@, SaleRecord(Stamp(@), s[i].ownerId,
                                         newOwnerId))]]

\* mutant of Confirmed: the history is replaced by the new record
ConfirmedResets(s, animalId, newOwnerId) ==
    [i \in 1..Len(s) |->
        IF s[i].id # animalId THEN s[i]
        ELSE [s[i] EXCEPT
                !.ownerId = newOwnerId,
                !.status = SOLD,
                !.transferHistory =
                    << SaleRecord(1, s[i].ownerId, newOwnerId) >>]]

\* prev.map(a => a.id !== animalId ? a : { ...a, ownerId, status, history })
Confirmed(s, animalId, newOwnerId) ==
    [i \in 1..Len(s) |->
        IF s[i].id # animalId THEN s[i]
        ELSE [s[i] EXCEPT
                !.ownerId = newOwnerId,
                !.status = SOLD,
                !.transferHistory =
                    Append(@, SaleRecord(Stamp(@), s[i].ownerId,
                                         newOwnerId))]]

\* confirmTransfer called through the store's context
confirmTransfer(animalId, newOwnerId) ==
    /\ store_Room
    /\ animals' = Confirmed(animals, animalId, newOwnerId)
    /\ UNCHANGED <<persistence, store, currentUser, users, alerts, transferRequests,
                   butcheryRecords, timers>>

\* mutant of timeout: the timer is cleared, the transfer is not confirmed
timeoutCleared ==
    /\ timers # <<>>
    /\ timers' = Tail(timers)
    /\ UNCHANGED <<persistence, store, currentUser, users, animals, alerts,
                   transferRequests, butcheryRecords>>

\* the oldest timer fires: confirmTransfer(animalId, toUserId)
timeout ==
    /\ timers # <<>>
    /\ animals' = Confirmed(animals, Head(timers).animalId,
                            Head(timers).toUserId)
    /\ timers' = Tail(timers)
    /\ UNCHANGED <<persistence, store, currentUser, users, alerts, transferRequests,
                   butcheryRecords>>

store_transferToButchery(animalId, fromButcheryId, toButcheryId, weight) ==
    /\ store_Room
    /\ animals' =
          [i \in 1..Len(animals) |->
              IF animals[i].id # animalId THEN animals[i]
              ELSE [animals[i] EXCEPT
                      !.ownerId = toButcheryId,
                      !.transferHistory =
                          Append(@, ButcheryTransferRecord(
                                       Stamp(@), fromButcheryId,
                                       toButcheryId, weight))]]
    /\ UNCHANGED <<persistence, store, currentUser, users, alerts, transferRequests,
                   butcheryRecords, timers>>

store_RedZoneAlert(record, t) ==
    [id |-> <<"", t>>, type |-> "RED_ZONE", animalId |-> record.animalId,
     details |-> <<"FRAUD ALERT", record.butcheryId, record.meatSold,
                   record.deadWeight>>,
     timestamp |-> t, resolved |-> FALSE]

store_logSlaughter(record) ==
    /\ store_Room
    /\ butcheryRecords' = Append(butcheryRecords, record)
    /\ animals' = SetStatus(animals, record.animalId, SLAUGHTERED)
    /\ IF record.meatSold > record.deadWeight
         THEN alerts' = <<store_RedZoneAlert(record, Stamp(alerts))>>
                           \o alerts
         ELSE UNCHANGED alerts
    /\ UNCHANGED <<persistence, store, currentUser, users, transferRequests, timers>>

\* the id the farmer's Sell button passes as the buyer
BuyerId == <<"buyer-id", 0>>

\* confirmTransfer's default newOwnerId
DefaultOwnerId == <<"u", 2>>

store_Next ==
    \/ \E i \in 1..MaxUsers : store_login(i)
    \/ store_logout
    \/ \E a \in AnimalIdPool : store_reportStolen(a)
    \/ \E a \in Ids(animals) : store_markDead(a)
    \/ \E a \in Ids(animals) : store_homeSlaughter(a)
    \/ \E a \in AnimalIdPool, u \in {BuyerId, DefaultOwnerId} :
          store_initiateTransfer(a, u)
    \/ \E a \in Ids(animals) : confirmTransfer(a, DefaultOwnerId)
    \/ timeout
    \/ \E a \in Ids(animals), f \in UserIdPool, w \in Weights :
          \E t \in UserIdPool \ {f} : store_transferToButchery(a, f, t, w)
    \/ \E a \in AnimalIdPool, l \in {2}, d \in Weights, s \in Weights :
          /\ currentUser # null
          /\ store_logSlaughter(NewRecord(a, currentUser[1].id, l, d, s,
                                          Stamp(butcheryRecords)))

TimerSpec == store_Init /\ [][store_Next]_vars

\* a timer that is set fires: setTimeout runs its callback after the delay
TimerFairSpec == TimerSpec /\ WF_vars(timeout)

\* either incarnation of the store
StoresSpec ==
    /\ Init \/ store_Init
    /\ [][(store = "request" /\ Next) \/ (store = "timer" /\ store_Next)]_vars

---------------------------------------------------------------------------
(* Properties of the request-based store *)

\* the animal with this id (ids of registered animals are distinct)
AnimalOf(animalId) == find(animals, animalId)[1]
AnimalAfter(animalId) == find(animals', animalId)[1]

RequestOf(requestId) == find(transferRequests, requestId)[1]
RequestAfter(requestId) == find(transferRequests', requestId)[1]

IsPrefix(s, t) == Len(s) <= Len(t) /\ \A i \in 1..Len(s) : s[i] = t[i]

\* C1: markDead, homeSlaughter, reportStolen and initiateTransfer on an
\* animal whose status is not ACTIVE fail and leave animals, alerts and
\* transferRequests unchanged.
C1_NonActiveRejected ==
    [][\A a \in Ids(animals) :
          ( /\ AnimalOf(a).status # ACTIVE
            /\ \/ markDead(a)
               \/ homeSlaughter(a)
               \/ reportStolen(a)
               \/ \E u \in UserIdPool : initiateTransfer(a, u) )
          => UNCHANGED <<animals, alerts, transferRequests>>]_vars

\* C2: acceptTransfer or rejectTransfer on a request that is already
\* ACCEPTED or REJECTED changes neither the requests nor the animals, and
\* the status of a request that has left PENDING never changes again.
C2_ResolvedOnce ==
    [][ /\ \A r \in Ids(transferRequests) :
              ( /\ RequestOf(r).status # "PENDING"
                /\ (acceptTransfer(r) \/ rejectTransfer(r)) )
              => UNCHANGED <<transferRequests, animals>>
        /\ \A i \in 1..Len(transferRequests) :
              transferRequests[i].status # "PENDING"
              => transferRequests'[i].status = transferRequests[i].status
      ]_vars

\* C3: accepting the pending request that initiateTransfer created for a
\* registered animal sets the animal's owner to the request's toUserId and
\* its status to SOLD, appends exactly one SALE record with the request's
\* fromUserId and toUserId, and marks the request ACCEPTED.
C3_AcceptTransfers ==
    [][\A r \in Ids(transferRequests) :
          LET req == RequestOf(r) IN
          ( /\ req.status = "PENDING"
            /\ req.animalId \in Ids(animals)
            /\ acceptTransfer(r) )
          => LET before == AnimalOf(req.animalId)
                 after == AnimalAfter(req.animalId) IN
             /\ after.ownerId = req.toUserId
             /\ after.status = SOLD
             /\ Len(after.transferHistory) = Len(before.transferHistory) + 1
             /\ IsPrefix(before.transferHistory, after.transferHistory)
             /\ LET rec == after.transferHistory[Len(after.transferHistory)]
                IN /\ rec.type = "SALE"
                   /\ rec.fromUserId = req.fromUserId
                   /\ rec.toUserId = req.toUserId
             /\ RequestAfter(r).status = "ACCEPTED"]_vars

\* an accepted request, its animal SOLD to the buyer by one SALE record
C3_Witness ==
    \E i \in 1..Len(transferRequests) : \E j \in 1..Len(animals) :
        /\ transferRequests[i].status = "ACCEPTED"
        /\ animals[j].id = transferRequests[i].animalId
        /\ animals[j].status = SOLD
        /\ animals[j].ownerId = transferRequests[i].toUserId
        /\ animals[j].ownerId # transferRequests[i].fromUserId
        /\ animals[j].transferHistory =
              << SaleRecord(1, transferRequests[i].fromUserId,
                            transferRequests[i].toUserId) >>

\* C4: rejecting the pending request that initiateTransfer created for a
\* registered animal leaves the animal's owner and transfer history
\* unchanged, restores its status to ACTIVE and marks the request REJECTED.
C4_RejectRestores ==
    [][\A r \in Ids(transferRequests) :
          LET req == RequestOf(r) IN
          ( /\ req.status = "PENDING"
            /\ req.animalId \in Ids(animals)
            /\ rejectTransfer(r) )
          => LET before == AnimalOf(req.animalId)
                 after == AnimalAfter(req.animalId) IN
             /\ after.ownerId = before.ownerId
             /\ after.transferHistory = before.transferHistory
             /\ after.status = ACTIVE
             /\ RequestAfter(r).status = "REJECTED"]_vars

\* a rejected request whose animal is back to ACTIVE with its first owner
C4_Witness ==
    \E i \in 1..Len(transferRequests) : \E j \in 1..Len(animals) :
        /\ transferRequests[i].status = "REJECTED"
        /\ animals[j].id = transferRequests[i].animalId
        /\ animals[j].status = ACTIVE
        /\ animals[j].ownerId # transferRequests[i].toUserId
        /\ animals[j].transferHistory = <<>>

\* C5: reportStolen by a logged-in user on an ACTIVE animal sets its status
\* to STOLEN and adds exactly one alert: of type STOLEN, for that animal,
\* unresolved, targeted at the current user's county.
C5_ReportStolenAlerts ==
    [][\A a \in Ids(animals) :
          ( /\ AnimalOf(a).status = ACTIVE
            /\ currentUser # null
            /\ reportStolen(a) )
          => /\ AnimalAfter(a).status = STOLEN
             /\ Len(alerts') = Len(alerts) + 1
             /\ Tail(alerts') = alerts
             /\ Head(alerts').type = "STOLEN"
             /\ Head(alerts').animalId = a
             /\ Head(alerts').resolved = FALSE
             /\ Head(alerts').targetCounty = currentUser[1].county]_vars

\* a stolen animal of another county's farmer, reported by the user logged in
C5_Witness ==
    /\ currentUser # null
    /\ alerts # <<>>
    /\ Head(alerts).type = "STOLEN"
    /\ Head(alerts).resolved = FALSE
    /\ Head(alerts).targetCounty = currentUser[1].county
    /\ Head(alerts).targetCounty # users[1].county
    /\ \E j \in 1..Len(animals) :
          /\ animals[j].id = Head(alerts).animalId
          /\ animals[j].status = STOLEN
          /\ animals[j].ownerId = users[1].id

\* C6: recoverAnimal on an animal reported stolen restores its status to
\* ACTIVE and sets resolved on exactly the STOLEN alerts of that animal;
\* the alerts of other animals and every RED_ZONE alert stay as they were.
C6_RecoverResolves ==
    [][\A a \in Ids(animals) :
          ( /\ AnimalOf(a).status = STOLEN
            /\ recoverAnimal(a) )
          => /\ AnimalAfter(a).status = ACTIVE
             /\ Len(alerts') = Len(alerts)
             /\ \A i \in 1..Len(alerts) :
                   alerts'[i] =
                     IF alerts[i].type = "STOLEN" /\ alerts[i].animalId = a
                       THEN [alerts[i] EXCEPT !.resolved = TRUE]
                       ELSE alerts[i]]_vars

\* a recovered animal: its STOLEN alert resolved, its RED_ZONE alert and an
\* alert that is not this animal's still unresolved
C6_Witness ==
    \E j \in 1..Len(animals) :
        /\ animals[j].status = ACTIVE
        /\ \E i \in 1..Len(alerts) :
              /\ alerts[i].animalId = animals[j].id
              /\ alerts[i].type = "STOLEN"
              /\ alerts[i].resolved
        /\ \E i \in 1..Len(alerts) :
              /\ alerts[i].animalId = animals[j].id
              /\ alerts[i].type = "RED_ZONE"
              /\ ~alerts[i].resolved
        /\ \E i \in 1..Len(alerts) :
              /\ alerts[i].animalId # animals[j].id
              /\ ~alerts[i].resolved

\* C7: recoverAnimal on an animal whose status is not STOLEN fails and
\* changes no animal and no alert.
C7_RecoverRequiresStolen ==
    [][\A a \in Ids(animals) :
          (AnimalOf(a).status # STOLEN /\ recoverAnimal(a))
          => UNCHANGED <<animals, alerts>>]_vars

\* C8: logSlaughter appends the record and sets the animal SLAUGHTERED
\* whatever its status was, and adds one RED_ZONE alert (scope ALL,
\* unresolved, for the record's animal) iff meatSold > deadWeight.
C8_LogSlaughter ==
    [][\A a \in AnimalIdPool, l \in {2}, d \in Weights, s \in Weights :
          handleSlaughter(a, l, d, s)
          => LET record == NewRecord(a, currentUser[1].id, l, d, s,
                                     Stamp(butcheryRecords)) IN
             /\ butcheryRecords' = Append(butcheryRecords, record)
             /\ Len(animals') = Len(animals)
             /\ \A i \in 1..Len(animals) :
                   animals'[i] =
                     IF animals[i].id = a
                       THEN [animals[i] EXCEPT !.status = SLAUGHTERED]
                       ELSE animals[i]
             /\ IF s > d
                  THEN /\ Len(alerts') = Len(alerts) + 1
                       /\ Tail(alerts') = alerts
                       /\ Head(alerts').type = "RED_ZONE"
                       /\ Head(alerts').targetCounty = "ALL"
                       /\ Head(alerts').resolved = FALSE
                       /\ Head(alerts').animalId = a
                  ELSE alerts' = alerts]_vars

\* a stolen animal slaughtered with meatSold = deadWeight: no alert but the
\* STOLEN one
C8_Witness ==
    /\ Len(butcheryRecords) = 1
    /\ butcheryRecords[1].meatSold = butcheryRecords[1].deadWeight
    /\ Len(alerts) = 1
    /\ alerts[1].type = "STOLEN"
    /\ alerts[1].animalId = butcheryRecords[1].animalId
    /\ \E j \in 1..Len(animals) :
          /\ animals[j].id = butcheryRecords[1].animalId
          /\ animals[j].status = SLAUGHTERED

RedZoneAlerts == {i \in 1..Len(alerts) : alerts[i].type = "RED_ZONE"}

ViolatingRecords ==
    {i \in 1..Len(butcheryRecords) :
        butcheryRecords[i].meatSold > butcheryRecords[i].deadWeight}

\* C9: the number of RED_ZONE alerts equals the number of logSlaughter
\* calls made with meatSold > deadWeight: no aggregation, no deduplication.
C9_OneAlertPerViolation ==
    Cardinality(RedZoneAlerts) = Cardinality(ViolatingRecords)

\* two violating records of the same butchery for the same animal, and two
\* RED_ZONE alerts
C9_Witness ==
    /\ Cardinality(ViolatingRecords) = 2
    /\ Cardinality(RedZoneAlerts) = 2
    /\ \A i \in ViolatingRecords :
          /\ butcheryRecords[i].animalId = butcheryRecords[1].animalId
          /\ butcheryRecords[i].butcheryId = butcheryRecords[1].butcheryId
          /\ butcheryRecords[i].animalId \in Ids(animals)

---------------------------------------------------------------------------
(* Properties of both stores *)

\* C10: an animal's transferHistory is append-only: in every step of either
\* store the history before the step is a prefix of the history after it,
\* and no animal leaves the collection or changes place in it.
C10_HistoryAppendOnly ==
    [][ /\ Len(animals') >= Len(animals)
        /\ \A i \in 1..Len(animals) :
              /\ animals'[i].id = animals[i].id
              /\ IsPrefix(animals[i].transferHistory,
                          animals'[i].transferHistory) ]_vars

\* in the timer-based store, a SALE record of confirmTransfer appended
\* after a BUTCHERY_TRANSFER record
C10_Witness ==
    /\ store = "timer"
    /\ \E j \in 1..Len(animals) :
          /\ Len(animals[j].transferHistory) = 2
          /\ animals[j].transferHistory[1].type = "BUTCHERY_TRANSFER"
          /\ animals[j].transferHistory[2].type = "SALE"

---------------------------------------------------------------------------
(* Terminal statuses, alerts, atomicity *)

\* C11: DEAD and SLAUGHTERED are terminal: in no step of the store does an
\* animal whose status is DEAD or SLAUGHTERED change its status.
C11_Terminal ==
    [][\A i \in 1..Len(animals) :
          animals[i].status \in {DEAD, SLAUGHTERED}
          => animals'[i].status = animals[i].status]_vars

\* the alerts of the state before a step, where they are after it: new
\* alerts are put in front
Shift == Len(alerts') - Len(alerts)

\* C12: no step changes an alert's resolved flag from true to false, no
\* step other than recoverAnimal changes an existing alert, and a RED_ZONE
\* alert is never changed: it stays unresolved.
C12_ResolutionOneWay ==
    [][ /\ Shift >= 0
        /\ \A i \in 1..Len(alerts) :
              LET before == alerts[i]
                  after == alerts'[i + Shift] IN
              /\ before.resolved => after.resolved
              /\ before.type = "RED_ZONE" => after = before
              /\ after.type = "RED_ZONE" => ~after.resolved
              /\ after # before => \E a \in Ids(animals) : recoverAnimal(a)
        /\ \A i \in 1..Shift : ~alerts'[i].resolved ]_vars

\* a RED_ZONE alert raised after the animal's STOLEN alert was resolved:
\* both kept, the one resolved and the other not
C12_Witness ==
    /\ Len(alerts) = 2
    /\ alerts[1].type = "RED_ZONE" /\ ~alerts[1].resolved
    /\ alerts[2].type = "STOLEN" /\ alerts[2].resolved
    /\ alerts[1].animalId = alerts[2].animalId

\* C13: reportStolen is atomic: every call, with or without a user logged
\* in, for a registered animal id or not, either sets the animal STOLEN and
\* adds a STOLEN alert for it, or changes nothing.
C13_ReportStolenAtomic ==
    [][\A a \in AnimalIdPool :
          reportStolen(a)
          => \/ /\ a \in Ids(animals)
                /\ AnimalAfter(a).status = STOLEN
                /\ Len(alerts') = Len(alerts) + 1
                /\ Head(alerts').type = "STOLEN"
                /\ Head(alerts').animalId = a
             \/ UNCHANGED <<animals, alerts>>]_vars

---------------------------------------------------------------------------
(* Ownership *)

\* C14: transferToButchery(animalId, from, to, weight) sets the animal's
\* ownerId to the destination butchery, appends exactly one
\* BUTCHERY_TRANSFER record carrying from, to and weight, and leaves the
\* status as it was, whatever it was; the other animals, the alerts, the
\* requests and the butchery records are unchanged.
C14_TransferToButchery ==
    [][\A a \in Ids(animals), f \in UserIdPool, w \in Weights :
          \A t \in UserIdPool \ {f} :
          transferToButchery(a, f, t, w)
          => LET before == AnimalOf(a)
                 after == AnimalAfter(a) IN
             /\ after.ownerId = t
             /\ after.status = before.status
             /\ after.transferHistory =
                   Append(before.transferHistory,
                          [date |-> Len(before.transferHistory) + 1,
                           fromUserId |-> f, toUserId |-> t,
                           type |-> "BUTCHERY_TRANSFER", weight |-> w])
             /\ Len(animals') = Len(animals)
             /\ \A i \in 1..Len(animals) :
                   animals[i].id # a => animals'[i] = animals[i]
             /\ UNCHANGED <<alerts, transferRequests, butcheryRecords>>]_vars

\* an animal that is not ACTIVE, moved to a butchery by one
\* BUTCHERY_TRANSFER record with its weight, in front of an untouched animal
C14_Witness ==
    /\ store = "request"
    /\ Len(animals) = 2
    /\ animals[1] = MOCK_ANIMALS[1]
    /\ animals[2].status \in {DEAD, STOLEN, SLAUGHTERED}
    /\ Len(animals[2].transferHistory) = 1
    /\ animals[2].transferHistory[1].type = "BUTCHERY_TRANSFER"
    /\ animals[2].transferHistory[1].weight \in Weights
    /\ animals[2].transferHistory[1].toUserId = animals[2].ownerId
    /\ animals[2].transferHistory[1].fromUserId # animals[2].ownerId

OwnersUnchanged ==
    /\ Len(animals') >= Len(animals)
    /\ \A i \in 1..Len(animals) : animals'[i].ownerId = animals[i].ownerId

\* a step of one of the operations that finalize a transfer
FinalizedTransfer ==
    \/ /\ store = "request"
       /\ \/ \E r \in Ids(transferRequests) : acceptTransfer(r)
          \/ \E a \in Ids(animals), f \in UserIdPool, w \in Weights :
                \E t \in UserIdPool \ {f} : transferToButchery(a, f, t, w)
    \/ /\ store = "timer"
       /\ \/ \E a \in Ids(animals) : confirmTransfer(a, DefaultOwnerId)
          \/ timeout
          \/ \E a \in Ids(animals), f \in UserIdPool, w \in Weights :
                \E t \in UserIdPool \ {f} :
                   store_transferToButchery(a, f, t, w)

\* a step of one of the operations that finalize no transfer
NoTransfer ==
    \/ /\ store = "request"
       /\ \/ \E a \in AnimalIdPool : reportStolen(a)
          \/ \E a \in Ids(animals) : recoverAnimal(a)
          \/ \E a \in Ids(animals) : markDead(a)
          \/ \E a \in Ids(animals) : homeSlaughter(a)
          \/ \E a \in AnimalIdPool, u \in UserIdPool : initiateTransfer(a, u)
          \/ \E r \in RequestIdPool : rejectTransfer(r)
          \/ \E a \in AnimalIdPool, l \in {2}, d \in Weights, s \in Weights :
                handleSlaughter(a, l, d, s)
    \/ /\ store = "timer"
       /\ \/ \E a \in AnimalIdPool : store_reportStolen(a)
          \/ \E a \in Ids(animals) : store_markDead(a)
          \/ \E a \in Ids(animals) : store_homeSlaughter(a)
          \/ \E a \in AnimalIdPool, u \in {BuyerId, DefaultOwnerId} :
                store_initiateTransfer(a, u)
          \/ \E a \in AnimalIdPool, l \in {2}, d \in Weights, s \in Weights :
                /\ currentUser # null
                /\ store_logSlaughter(NewRecord(a, currentUser[1].id, l, d,
                                                s, Stamp(butcheryRecords)))

\* C15: reportStolen, recoverAnimal, markDead, homeSlaughter,
\* initiateTransfer, rejectTransfer and logSlaughter leave every ownerId
\* unchanged; an ownerId changes only in a step of acceptTransfer,
\* transferToButchery or the legacy confirmTransfer, and that step appends
\* exactly one TransferRecord to the animal.
C15_OwnershipByTransfer ==
    [][ /\ NoTransfer => OwnersUnchanged
        /\ \A i \in 1..Len(animals) :
              animals'[i].ownerId # animals[i].ownerId
              => /\ FinalizedTransfer
                 /\ Len(animals'[i].transferHistory) =
                       Len(animals[i].transferHistory) + 1
                 /\ IsPrefix(animals[i].transferHistory,
                             animals'[i].transferHistory) ]_vars

\* an animal sold and then moved to a butchery: two owner changes, two
\* records, the owner being the last record's receiver
C15_Witness ==
    /\ store = "request"
    /\ \E j \in 1..Len(animals) :
          /\ Len(animals[j].transferHistory) = 2
          /\ animals[j].transferHistory[1].type = "SALE"
          /\ animals[j].transferHistory[1].fromUserId
                # animals[j].transferHistory[1].toUserId
          /\ animals[j].transferHistory[2].type = "BUTCHERY_TRANSFER"
          /\ animals[j].transferHistory[2].toUserId = animals[j].ownerId
          /\ animals[j].transferHistory[2].toUserId
                # animals[j].transferHistory[1].toUserId

---------------------------------------------------------------------------
(* Registration *)

\* C16: registerAnimal with the biometricHash of a registered animal is
\* rejected and leaves the animals unchanged, and so no two animals share a
\* biometricHash.
C16_UniqueHashes ==
    [][ /\ \A o \in UserIdPool, h \in Hashes :
              ( /\ \E i \in 1..Len(animals) : animals[i].biometricHash = h
                /\ registerAnimal(NewAnimal(o, h, Stamp(animals))) )
              => UNCHANGED animals
        /\ \A i, j \in 1..Len(animals') :
              i # j => animals'[i].biometricHash # animals'[j].biometricHash
      ]_vars

\* C17: registerAnimal with an ownerId that is the id of no registered user
\* fails, and after registerAnimal, acceptTransfer and transferToButchery
\* every animal's ownerId is the id of a registered user.
C17_OwnerRegistered ==
    [][ /\ \A o \in UserIdPool, h \in Hashes :
              ( /\ o \notin Ids(users)
                /\ registerAnimal(NewAnimal(o, h, Stamp(animals))) )
              => UNCHANGED animals
        /\ \A i \in 1..Len(animals') : animals'[i].ownerId \in Ids(users')
      ]_vars

---------------------------------------------------------------------------
(* The alert collection, the status enum *)

\* C18: new alerts are put at the head: the alerts are in most-recent-first
\* order of creation, and no step changes the number or the relative order
\* of the alerts there were.
C18_AlertsNewestFirst ==
    [][ /\ Shift >= 0
        /\ \A i \in 1..Len(alerts) : alerts'[i + Shift].id = alerts[i].id
        /\ \A i, j \in 1..Len(alerts') :
              i < j => alerts'[i].timestamp > alerts'[j].timestamp ]_vars

\* three alerts, the newest first: a STOLEN alert, resolved since, then a
\* RED_ZONE alert, then a STOLEN alert
C18_Witness ==
    /\ Len(alerts) = 3
    /\ alerts[1].type = "STOLEN" /\ ~alerts[1].resolved
    /\ alerts[2].type = "RED_ZONE"
    /\ alerts[3].type = "STOLEN" /\ alerts[3].resolved
    /\ alerts[1].timestamp > alerts[2].timestamp
    /\ alerts[2].timestamp > alerts[3].timestamp

\* C19: in every state of either store every animal's status is one of
\* ACTIVE, PENDING_TRANSFER, SOLD, SLAUGHTERED, DEAD, STOLEN.
C19_StatusInEnum ==
    \A i \in 1..Len(animals) :
        animals[i].status \in
            {"ACTIVE", "PENDING_TRANSFER", "SOLD", "SLAUGHTERED", "DEAD",
             "STOLEN"}

\* the statuses written by reportStolen, initiateTransfer and logSlaughter
\* and by acceptTransfer
C19_Witness ==
    /\ store = "request"
    /\ Len(animals) = 2
    /\ animals[1].status = SOLD
    /\ animals[2].status \in {STOLEN, PENDING_TRANSFER, SLAUGHTERED}

---------------------------------------------------------------------------
(* The provider constructed on the storage that an earlier run has left *)

\* an animal as the single-photo version of the application registered it
LegacyAnimal(n, url) ==
    [id |-> <<"a", n>>, serialNumber |-> "SN", species |-> "Goat",
     ownerId |-> <<"u", 1>>, status |-> ACTIVE, transferHistory |-> <<>>,
     biometricHash |-> "BIO-2", photoUrl |-> url]

\* the items under 'animals' that a run can find: none, a text that does
\* not parse, the lists of the single-photo version, and the lists that
\* this version has written
StoredItems ==
    {NoItem, << Corrupt >>, << NullText >>}
      \cup { << JSON_stringify(s) >> :
               s \in { <<>>,
                       << LegacyAnimal(1, "https://picsum.photos/300/200") >>,
                       << LegacyAnimal(1, "data:old") >>,
                       << LegacyAnimal(1, "data:old"),
                          LegacyAnimal(2, "data:older") >>,
                       MOCK_ANIMALS } }

PersistInit ==
    /\ store = "request"
    /\ timers = <<>>
    /\ localStorage \in StoredItems
    /\ mounted = FALSE
    /\ currentUser = null
    /\ users = MOCK_USERS
    /\ animals = loadState(localStorage, "animals", MOCK_ANIMALS)
    /\ alerts = <<>>
    /\ transferRequests = <<>>
    /\ butcheryRecords = <<>>

\* the page is loaded again: the provider is constructed on the storage as
\* it is (the other collections come back from their own items)
reload ==
    /\ mounted
    /\ ~broken
    /\ mounted' = FALSE
    /\ animals' = loadState(localStorage, "animals", MOCK_ANIMALS)
    /\ UNCHANGED <<store, currentUser, users, alerts, transferRequests,
                   butcheryRecords, timers, localStorage>>

\* ErrorBoundary, Reset Data: localStorage.clear(); window.location.reload()
resetData ==
    /\ broken
    /\ localStorage' = NoItem
    /\ mounted' = FALSE
    /\ currentUser' = null
    /\ users' = MOCK_USERS
    /\ animals' = loadState(NoItem, "animals", MOCK_ANIMALS)
    /\ alerts' = <<>>
    /\ transferRequests' = <<>>
    /\ butcheryRecords' = <<>>
    /\ UNCHANGED timerStore

\* the images a farmer captures: three that fit, or one over the quota
PhotoSets == {Captured, [Captured EXCEPT !.left = TooBig]}

PersistNext ==
    \/ mount
    \/ reload
    \/ resetData
    \/ \E o \in {<<"u", 1>>}, h \in Hashes, p \in PhotoSets :
          registerAnimal([NewAnimal(o, h, Stamp(animals))
                             EXCEPT !.photos = p])
    \/ \E a \in Ids(animals) : markDead(a)
    \/ \E a \in Ids(animals) : homeSlaughter(a)

PersistSpec == PersistInit /\ [][PersistNext]_vars

\* the list that loadState('animals', ...) returns on the storage as it is
Loaded == loadState(localStorage, "animals", MOCK_ANIMALS)

\* equal but for the properties whose value is undefined
Equivalent(s, t) == JSON_stringify(s) = JSON_stringify(t)

\* C20: saving the animals under 'animals' and loading them with loadState
\* gives an equivalent list: the written text loads to an equivalent list,
\* and after a write that setItem accepted so does the storage; a stored
\* record with a photos object comes back unchanged, a stored record with
\* only photoUrl comes back with its other fields and with its image as
\* photos.left; the migration changes no migrated record.
C20_RoundTrip ==
    /\ Equivalent(loadState(<< JSON_stringify(animals) >>, "animals",
                            MOCK_ANIMALS), animals)
    /\ (mounted /\ ~QuotaExceeded(JSON_stringify(animals)))
          => Equivalent(Loaded, animals)
    /\ (~mounted /\ localStorage # NoItem /\ localStorage[1].kind = "array")
          => /\ Len(animals) = Len(localStorage[1].value)
             /\ \A i \in 1..Len(animals) :
                   LET e == localStorage[1].value[i]
                       a == animals[i] IN
                   IF "photos" \in DOMAIN e THEN a = e
                   ELSE /\ \A k \in DOMAIN e \ {"photoUrl"} : a[k] = e[k]
                        /\ "photoUrl" \in DOMAIN e
                              => a.photos.left = e.photoUrl
    /\ \A i \in 1..Len(animals) : Migrated(animals[i]) = animals[i]

\* the list loaded again after a registration: the animal of the
\* single-photo version with its image as photos.left, and the animal
\* registered since with its three images
C20_Witness ==
    /\ ~mounted
    /\ Len(animals) = 2
    /\ animals[1].photos.left = "data:old"
    /\ animals[1].photos.right = DefaultPhoto
    /\ animals[2].photos = Captured
    /\ localStorage = << JSON_stringify(animals) >>

\* C21: loadState returns the fallback when the key holds no item or an
\* item that is no usable serialized collection (a text that does not
\* parse, or one that parses to something else than an array), and the
\* deserialized collection otherwise: so is the list of a provider just
\* constructed.
C21_LoadFallback ==
    ~mounted
    => IF localStorage = NoItem \/ localStorage[1].kind # "array"
         THEN animals = MOCK_ANIMALS
         ELSE /\ Len(animals) = Len(localStorage[1].value)
              /\ \A i \in 1..Len(animals) :
                    Equivalent(<< animals[i] >>,
                               << Migrated(localStorage[1].value[i]) >>)

---------------------------------------------------------------------------
(* The deferred confirmation of the timer-based store *)

\* C22: nothing done to the animal after initiateTransfer cancels or guards
\* the deferred confirmTransfer: when the timer fires, the animal becomes
\* SOLD, owned by toUserId, with one more SALE record from its owner of that
\* moment, whatever its status was; every other animal is left unchanged.
C22_TimerNotCancelled ==
    [][timeout
       => /\ Len(animals') = Len(animals)
          /\ \A i \in 1..Len(animals) :
                IF animals[i].id # Head(timers).animalId
                  THEN animals'[i] = animals[i]
                  ELSE /\ animals'[i].status = SOLD
                       /\ animals'[i].ownerId = Head(timers).toUserId
                       /\ animals'[i].transferHistory =
                             Append(animals[i].transferHistory,
                                    [date |->
                                        Len(animals[i].transferHistory) + 1,
                                     fromUserId |-> animals[i].ownerId,
                                     toUserId |-> Head(timers).toUserId,
                                     type |-> "SALE"])]_vars

\* an animal reported stolen while its timer ran, SOLD when the timer fired
C22_Witness ==
    /\ store = "timer"
    /\ timers = <<>>
    /\ \E j \in 1..Len(animals) :
          /\ animals[j].status = SOLD
          /\ Len(animals[j].transferHistory) = 1
          /\ animals[j].transferHistory[1].type = "SALE"
          /\ animals[j].transferHistory[1].toUserId = animals[j].ownerId
          /\ \E i \in 1..Len(alerts) :
                /\ alerts[i].type = "STOLEN"
                /\ alerts[i].animalId = animals[j].id

\* a timer is set for this animal and this buyer
Scheduled(a, u) ==
    \E i \in 1..Len(timers) :
        timers[i].animalId = a /\ timers[i].toUserId = u

\* the animal is SOLD to this buyer, by a SALE record
Completed(a, u) ==
    \E j \in 1..Len(animals) :
        /\ animals[j].id = a
        /\ animals[j].status = SOLD
        /\ animals[j].ownerId = u
        /\ animals[j].transferHistory # <<>>
        /\ LET last ==
                 animals[j].transferHistory[Len(animals[j].transferHistory)]
           IN last.type = "SALE" /\ last.toUserId = u

\* C23: initiateTransfer on a registered animal puts it in PENDING_TRANSFER
\* and sets one timer; the timers fire one at a time, each completing one
\* transfer with one SALE record from the owner of that moment; and, the
\* timer being fair, a transfer that is scheduled is eventually completed.
C23_EventuallyConfirmed ==
    /\ [][\A a \in Ids(animals), u \in {BuyerId, DefaultOwnerId} :
             store_initiateTransfer(a, u)
             => /\ AnimalAfter(a).status = PENDING_TRANSFER
                /\ timers' = Append(timers, [animalId |-> a,
                                             toUserId |-> u])]_vars
    /\ [][Len(timers') < Len(timers)
          => /\ timers' = Tail(timers)
             /\ Head(timers).animalId \in Ids(animals)
                   => LET before == AnimalOf(Head(timers).animalId)
                          after == AnimalAfter(Head(timers).animalId) IN
                      /\ after.status = SOLD
                      /\ after.ownerId = Head(timers).toUserId
                      /\ after.transferHistory =
                            Append(before.transferHistory,
                                   [date |-> Len(before.transferHistory) + 1,
                                    fromUserId |-> before.ownerId,
                                    toUserId |-> Head(timers).toUserId,
                                    type |-> "SALE"])]_vars
    /\ \A a \in {<<"a", 1>>, <<"a", 2>>}, u \in {BuyerId, DefaultOwnerId} :
          Scheduled(a, u) ~> Completed(a, u)

\* both animals sold by their timers, to different buyers
C23_Witness ==
    /\ store = "timer"
    /\ timers = <<>>
    /\ Len(animals) = 2
    /\ Completed(animals[1].id, BuyerId)
    /\ Completed(animals[2].id, DefaultOwnerId)
    /\ Len(animals[1].transferHistory) = 1
    /\ Len(animals[2].transferHistory) = 1

---------------------------------------------------------------------------
(* The store as the views of App.tsx call it *)

\* FarmerDashboard: animals.filter(a => a.ownerId === currentUser?.id)
myAnimals ==
    {i \in 1..Len(animals) :
        currentUser # null /\ animals[i].ownerId = currentUser[1].id}

\* ButcheryDashboard: the animals offered in the select
stock == {i \in myAnimals : animals[i].status = ACTIVE}

\* mutant of myRequests: resolved requests are listed too
myRequestsAll ==
    {i \in 1..Len(transferRequests) :
        transferRequests[i].toUserId = currentUser[1].id}

\* AppContent: the requests listed in the notifications
myRequests ==
    {i \in 1..Len(transferRequests) :
        /\ transferRequests[i].toUserId = currentUser[1].id
        /\ transferRequests[i].status = "PENDING"}

\* TransferModal: users.filter(u => u.id !== currentUser?.id)
buyers == {u \in Ids(users) : u # currentUser[1].id}

\* the dashboard of this role is shown
Dashboard(role) == currentUser # null /\ currentUser[1].role = role

\* AuthView: shown while nobody is logged in
AuthView_register ==
    /\ currentUser = null
    /\ \E role \in {FARMER, BUTCHERY}, county \in {"Kiambu"} :
          registerUser(role, county, Village(county))

AuthView_login ==
    /\ currentUser = null
    /\ \E i \in 1..Len(users) : login(i)

AppContent_logout == currentUser # null /\ logout

\* RegisterAnimalView.finalize: ownerId: currentUser.id
finalize ==
    /\ Dashboard(FARMER)
    /\ \E h \in Hashes :
          registerAnimal(NewAnimal(currentUser[1].id, h, Stamp(animals)))

\* FarmerDashboard: the four buttons of an ACTIVE animal, Sell opening the
\* TransferModal, and the button of a STOLEN animal
FarmerDashboard ==
    /\ Dashboard(FARMER)
    /\ \E i \in myAnimals :
          \/ /\ animals[i].status = ACTIVE
             /\ \/ homeSlaughter(animals[i].id)
                \/ markDead(animals[i].id)
                \/ reportStolen(animals[i].id)
                \/ \E u \in buyers : initiateTransfer(animals[i].id, u)
          \/ /\ animals[i].status = STOLEN
             /\ recoverAnimal(animals[i].id)

\* AppContent: Accept and Reject of a listed request
Notifications ==
    /\ currentUser # null
    /\ \E i \in myRequests :
          \/ acceptTransfer(transferRequests[i].id)
          \/ rejectTransfer(transferRequests[i].id)

\* ButcheryDashboard: Confirm, with an animal of the stock or none selected
ButcheryDashboard ==
    /\ Dashboard(BUTCHERY)
    /\ \E a \in {animals[i].id : i \in stock} \cup {EmptyId},
          l \in {2}, d \in Weights, s \in Weights :
          handleSlaughter(a, l, d, s)

UINext ==
    \/ mount
    \/ AuthView_register
    \/ AuthView_login
    \/ AppContent_logout
    \/ finalize
    \/ FarmerDashboard
    \/ Notifications
    \/ ButcheryDashboard

UISpec == Init /\ [][UINext]_vars

\* the status changes of the transition engine
Edges ==
    {<<ACTIVE, STOLEN>>, <<ACTIVE, DEAD>>, <<ACTIVE, SLAUGHTERED>>,
     <<ACTIVE, PENDING_TRANSFER>>, <<PENDING_TRANSFER, SOLD>>,
     <<PENDING_TRANSFER, ACTIVE>>, <<STOLEN, ACTIVE>>}

\* C24: when the operations are called as the views call them, every change
\* of an animal's status is one of the edges; no animal leaves DEAD,
\* SLAUGHTERED or SOLD.
C24_EdgesUnderUI ==
    [][\A i \in 1..Len(animals) :
          animals'[i].status # animals[i].status
          => <<animals[i].status, animals'[i].status>> \in Edges]_vars

\* the buyer logged in, the animal SOLD to them, nothing left to accept
C24_Witness ==
    /\ currentUser # null
    /\ myRequests = {}
    /\ myRequestsAll # {}
    /\ \E i \in myAnimals :
          /\ animals[i].status = SOLD
          /\ animals[i].transferHistory # <<>>

---------------------------------------------------------------------------
(* Requests, chains of records, references *)

\* C25: no two requests with status PENDING name the same animal, and a
\* request of a registered animal is PENDING only while the animal's status
\* is PENDING_TRANSFER.
C25_OnePendingRequest ==
    /\ \A i, j \in 1..Len(transferRequests) :
          ( /\ transferRequests[i].status = "PENDING"
            /\ transferRequests[j].status = "PENDING"
            /\ transferRequests[i].animalId = transferRequests[j].animalId )
          => i = j
    /\ \A i \in 1..Len(transferRequests) :
          ( /\ transferRequests[i].status = "PENDING"
            /\ transferRequests[i].animalId \in Ids(animals) )
          => AnimalOf(transferRequests[i].animalId).status = PENDING_TRANSFER

\* C26: in every state of the request-based store an animal whose status is
\* PENDING_TRANSFER is named by at least one request with status PENDING.
C26_PendingHasRequest ==
    \A j \in 1..Len(animals) :
        animals[j].status = PENDING_TRANSFER
        => \E i \in 1..Len(transferRequests) :
              /\ transferRequests[i].status = "PENDING"
              /\ transferRequests[i].animalId = animals[j].id

\* an animal offered again after a rejection: PENDING_TRANSFER, with a
\* REJECTED request and a PENDING one
C26_Witness ==
    \E j \in 1..Len(animals) :
        /\ animals[j].status = PENDING_TRANSFER
        /\ \E i, k \in 1..Len(transferRequests) :
              /\ transferRequests[i].animalId = animals[j].id
              /\ transferRequests[k].animalId = animals[j].id
              /\ transferRequests[i].status = "REJECTED"
              /\ transferRequests[k].status = "PENDING"

\* C27: the SALE record that acceptTransfer appends has the animal's owner
\* of the moment as its fromUserId, and so every record of a history starts
\* from the receiver of the record before it.
C27_HistoryChain ==
    [][ /\ \A r \in Ids(transferRequests) :
              ( /\ RequestOf(r).animalId \in Ids(animals)
                /\ RequestOf(r).status = "PENDING"
                /\ acceptTransfer(r) )
              => LET before == AnimalOf(RequestOf(r).animalId)
                     after == AnimalAfter(RequestOf(r).animalId) IN
                 after.transferHistory[Len(after.transferHistory)].fromUserId
                    = before.ownerId
        /\ \A i \in 1..Len(animals') :
              \A k \in 2..Len(animals'[i].transferHistory) :
                 animals'[i].transferHistory[k].fromUserId
                    = animals'[i].transferHistory[k - 1].toUserId ]_vars

\* C28: an animal with an empty transferHistory keeps its owner, and the
\* owner of an animal with a history is the receiver of its last record.
C28_OwnerIsLastReceiver ==
    [][\A i \in 1..Len(animals') :
          LET h == animals'[i].transferHistory IN
          IF h = <<>>
            THEN i <= Len(animals)
                    => animals'[i].ownerId = animals[i].ownerId
            ELSE h[Len(h)].toUserId = animals'[i].ownerId]_vars

\* an animal moved to a butchery and then sold on: its owner is the buyer
\* of the SALE record, no longer the receiver of the first record
C28_Witness ==
    /\ store = "request"
    /\ \E j \in 1..Len(animals) :
          /\ Len(animals[j].transferHistory) = 2
          /\ animals[j].transferHistory[1].type = "BUTCHERY_TRANSFER"
          /\ animals[j].transferHistory[2].type = "SALE"
          /\ animals[j].transferHistory[2].toUserId = animals[j].ownerId
          /\ animals[j].transferHistory[1].toUserId # animals[j].ownerId

\* C29: every request, every butchery record and every alert names a
\* registered animal; initiateTransfer and logSlaughter with the id of no
\* registered animal add no request, no butchery record and no alert.
C29_RecordsNameAnimals ==
    [][ /\ \A a \in AnimalIdPool \ Ids(animals) :
              ( \/ \E u \in UserIdPool : initiateTransfer(a, u)
                \/ \E l \in {2}, d \in Weights, s \in Weights :
                      handleSlaughter(a, l, d, s) )
              => UNCHANGED <<transferRequests, butcheryRecords, alerts>>
        /\ \A i \in 1..Len(transferRequests') :
              transferRequests'[i].animalId \in Ids(animals')
        /\ \A i \in 1..Len(butcheryRecords') :
              butcheryRecords'[i].animalId \in Ids(animals')
        /\ \A i \in 1..Len(alerts') :
              alerts'[i].animalId \in Ids(animals') ]_vars

\* the hashes that the scanner hands to the market check-in
ScannedHashes == Hashes \cup {"BIO-NONE"}

\* C30: findAnimalByHash(hash) returns an animal with that biometricHash
\* when one is registered, and nothing when none is.
C30_FindByHash ==
    \A h \in ScannedHashes :
        IF \E i \in 1..Len(animals) : animals[i].biometricHash = h
          THEN /\ findAnimalByHash(h) # <<>>
               /\ findAnimalByHash(h)[1].biometricHash = h
          ELSE findAnimalByHash(h) = <<>>

====
